---- MODULE Spec2Model ----
(***************************************************************************)
(* Model of freckles/separation/sampling.py: run_minimize, run_fisher and  *)
(* run_emcee.  scipy's minimize, numdifftools and emcee's EnsembleSampler  *)
(* are external; what they hand back is drawn from small sets.             *)
(***************************************************************************)
EXTENDS Integers, Sequences, FiniteSets, TLC

VARIABLES
    pc,             \* position in the function being run
    pos0,           \* argument pos0: the initial parameter vector
    dpos,           \* argument dpos: [given |-> FALSE] is dpos=None
    nwalkers,       \* argument nwalkers
    nsamps,         \* argument nsamps
    nburn,          \* argument nburn
    conv_F,         \* argument conv_F
    conv_perc,      \* argument conv_perc (a rational)
    ndim,           \* local ndim = len(pos0)
    dp,             \* local dp: initial displacement amplitudes
    iteration,      \* sampler.iteration
    chain,          \* sampler.chain: per walker, the stored steps
    old_tau,        \* local old_tau
    tau,            \* local tau of the latest convergence check
    autocorr,       \* local autocorr: list of (iteration, mean tau)
    converged,      \* local converged of the latest convergence check
    ml_first,       \* argument ml_first of run_fisher
    res,            \* the OptimizeResult scipy's minimize handed back
    minimize_calls, \* number of calls made to scipy's minimize
    result          \* the returned dictionary

vars == <<pc, pos0, dpos, nwalkers, nsamps, nburn, conv_F, conv_perc, ndim, dp,
          iteration, chain, old_tau, tau, autocorr, converged, ml_first, res,
          minimize_calls, result>>

emceeArgs == <<pos0, dpos, nwalkers, nsamps, nburn, conv_F, conv_perc>>
optimVars == <<ml_first, res, minimize_calls>>

(***************************************************************************)
(* Bounds of the model.                                                    *)
(***************************************************************************)
MaxDim == 2
MaxSamps == 210
MaxBurn == 220
MaxExtraWalkers == 1
MaxHint == 2
MaxCoord == 1

\* The convergence check is made every CheckEvery iterations.
CheckEvery == 100

(***************************************************************************)
(* Floating point values: <<kind, num, den>> with den > 0, kind one of     *)
(* "fin" (the rational num/den), "inf", "ninf", "nan".  Python's None is   *)
(* <<"none", 0, 1>>.                                                       *)
(***************************************************************************)
Rat(n, d) == <<"fin", n, d>>
Fin(n) == Rat(n, 1)
Inf == <<"inf", 0, 1>>
NInf == <<"ninf", 0, 1>>
NaN == <<"nan", 0, 1>>
PyNone == <<"none", 0, 1>>

IsFin(a) == a[1] = "fin"
IsNaN(a) == a[1] = "nan"
Sign(a) == CASE a[1] = "inf" -> 1
             [] a[1] = "ninf" -> -1
             [] a[1] = "fin" -> (IF a[2] > 0 THEN 1 ELSE IF a[2] < 0 THEN -1 ELSE 0)
             [] OTHER -> 0

XNeg(a) == CASE a[1] = "inf" -> NInf
             [] a[1] = "ninf" -> Inf
             [] a[1] = "fin" -> Rat(-a[2], a[3])
             [] OTHER -> a

\* a - b
XSub(a, b) ==
    IF IsNaN(a) \/ IsNaN(b) THEN NaN
    ELSE IF IsFin(a) /\ IsFin(b) THEN Rat(a[2] * b[3] - b[2] * a[3], a[3] * b[3])
    ELSE IF IsFin(b) THEN a
    ELSE IF IsFin(a) THEN XNeg(b)
    ELSE IF a = b THEN NaN ELSE a

\* np.abs(a)
XAbs(a) == IF Sign(a) < 0 THEN XNeg(a) ELSE a

\* a * b
XMul(a, b) ==
    IF IsNaN(a) \/ IsNaN(b) THEN NaN
    ELSE IF IsFin(a) /\ IsFin(b) THEN Rat(a[2] * b[2], a[3] * b[3])
    ELSE IF Sign(a) * Sign(b) > 0 THEN Inf
    ELSE IF Sign(a) * Sign(b) < 0 THEN NInf
    ELSE NaN

\* a / b (numpy: division by zero gives inf or nan, never an exception)
XDiv(a, b) ==
    IF IsNaN(a) \/ IsNaN(b) THEN NaN
    ELSE IF IsFin(a) /\ IsFin(b) THEN
        IF b[2] = 0 THEN (IF a[2] = 0 THEN NaN ELSE IF a[2] > 0 THEN Inf ELSE NInf)
        ELSE IF b[2] > 0 THEN Rat(a[2] * b[3], a[3] * b[2])
        ELSE Rat(-(a[2] * b[3]), a[3] * (-b[2]))
    ELSE IF IsFin(b) THEN (IF Sign(b) < 0 THEN XNeg(a) ELSE a)
    ELSE IF IsFin(a) THEN Fin(0)
    ELSE NaN

\* a < b
XLt(a, b) ==
    IF IsNaN(a) \/ IsNaN(b) THEN FALSE
    ELSE IF IsFin(a) /\ IsFin(b) THEN a[2] * b[3] < b[2] * a[3]
    ELSE IF a[1] = "ninf" THEN b[1] # "ninf"
    ELSE IF b[1] = "inf" THEN a[1] # "inf"
    ELSE FALSE

\* a <= b
XLe(a, b) ==
    IF IsNaN(a) \/ IsNaN(b) THEN FALSE
    ELSE IF IsFin(a) /\ IsFin(b) THEN a[2] * b[3] <= b[2] * a[3]
    ELSE a[1] = "ninf" \/ b[1] = "inf"

RECURSIVE XSum(_)
XSum(s) == IF s = <<>> THEN Fin(0)
           ELSE LET h == Head(s)
                    t == XSum(Tail(s))
                IN  IF IsNaN(h) \/ IsNaN(t) THEN NaN
                    ELSE IF IsFin(h) /\ IsFin(t)
                         THEN Rat(h[2] * t[3] + t[2] * h[3], h[3] * t[3])
                    ELSE IF IsFin(t) THEN h
                    ELSE IF IsFin(h) THEN t
                    ELSE IF h = t THEN h ELSE NaN

\* np.mean(tau)
XMean(s) == XDiv(XSum(s), Fin(Len(s)))

\* n equal entries v
Fill(n, v) == [i \in 1..n |-> v]

(***************************************************************************)
(* run_emcee: the initial displacement amplitudes.                         *)
(***************************************************************************)
\* dpos as the loop sees it: 1e-2*np.ones(ndim) when dpos is None
EffectiveDpos(d, n) == IF d.given THEN d.hints ELSE Fill(n, Rat(1, 100))

\* the body of the loop over enumerate(dpos): the value stored in dp[i]
DpEntry(d) == IF d = PyNone \/ XLe(d, Fin(0)) THEN Rat(1, 100) ELSE XMul(d, Rat(1, 10))

\* dp = np.zeros(ndim), then dp[i] set for every i of enumerate(dpos)
DpOf(hints, n) ==
    [i \in 1..n |-> IF i <= Len(hints) THEN DpEntry(hints[i]) ELSE Fin(0)]

\* dp[i] with i >= ndim raises IndexError
DpIndexError(hints, n) == Len(hints) > n

\* a walker cloud with no spread in some dimension
Degenerate(d) == \E i \in DOMAIN d : Sign(d[i]) = 0

(***************************************************************************)
(* run_emcee: the sampling loop.                                           *)
(***************************************************************************)
\* variant: the baseline starts at a finite value
InitialOldTauFinite == Fin(1)

InitialOldTau == Inf

\* variant: the test of the remainder is inverted
CheckDueInverted(it) == it % CheckEvery # 0

\* "if sampler.iteration % 100: continue"
CheckDue(it) == it % CheckEvery = 0

\* np.all(tau * conv_F < sampler.iteration)
FactorTest(t, F, it) ==
    \A d \in DOMAIN t : XLt(XMul(t[d], Fin(F)), Fin(it))

\* np.all(np.abs(old_tau - tau) / tau < conv_perc)
ChangeTest(t, old, perc) ==
    \A d \in DOMAIN t : XLt(XDiv(XAbs(XSub(old[d], t[d])), t[d]), perc)

\* variant: either test suffices
ConvergedEither(t, old, F, perc, it) == FactorTest(t, F, it) \/ ChangeTest(t, old, perc)

Converged(t, old, F, perc, it) == FactorTest(t, F, it) /\ ChangeTest(t, old, perc)

\* variant: one iteration too many
LoopContinuesOneMore(it, n) == it <= n

\* the generator sampler.sample(pos, iterations=nsamps) yields once more
LoopContinues(it, n) == it < n

\* the sampler stores the position of every walker after iteration it;
\* <<w, it>> stands for the position of walker w after iteration it
SaveStep(c, it) == [w \in DOMAIN c |-> Append(c[w], <<w, it>>)]

\* variant: the slice starts one row late
SliceFromOneLate(s, start) ==
    LET b == IF start + 1 > Len(s) THEN Len(s) ELSE start + 1
    IN  SubSeq(s, b + 1, Len(s))

\* s[start:] for start >= 0
SliceFrom(s, start) ==
    LET b == IF start > Len(s) THEN Len(s) ELSE start
    IN  SubSeq(s, b + 1, Len(s))

\* variant: no burn-in is discarded
BurnSliceNone(c, burn) == c

\* sampler.chain[:, nburn:, :]
BurnSlice(c, burn) == [w \in DOMAIN c |-> SliceFrom(c[w], burn)]

\* .reshape((-1, ndim)): the rows of walker 1, then those of walker 2, ...
RECURSIVE Flatten(_, _)
Flatten(c, w) == IF w = 0 THEN <<>> ELSE Flatten(c, w - 1) \o c[w]

Samples(c, burn) == Flatten(BurnSlice(c, burn), Len(c))

(***************************************************************************)
(* run_emcee: actions.                                                     *)
(***************************************************************************)
\* what sampler.get_autocorr_time(tol=0) may estimate for one dimension
TauVals == {Fin(-1), Fin(1), Fin(2), NaN}

\* lines 124-144: ndim, dp, pos, the sampler, old_tau, autocorr; the sampler
\* may refuse a walker cloud without spread when sample() starts
Setup ==
    /\ pc = "setup"
    /\ LET n == Len(pos0)
           hints == EffectiveDpos(dpos, n)
       IN  /\ ndim' = n
           /\ IF DpIndexError(hints, n)
              THEN /\ pc' = "error"
                   /\ UNCHANGED <<dp, chain, old_tau>>
              ELSE /\ dp' = DpOf(hints, n)
                   /\ chain' = Fill(nwalkers, <<>>)
                   /\ old_tau' = Fill(n, InitialOldTau)
                   /\ \E accept \in (IF Degenerate(dp') THEN BOOLEAN ELSE {TRUE}) :
                        pc' = IF ~accept THEN "error"
                              ELSE IF LoopContinues(0, nsamps) THEN "sampling"
                              ELSE "finish"
    /\ UNCHANGED <<emceeArgs, optimVars, iteration, tau, autocorr, converged, result>>

\* lines 145-160: one pass of the loop
Iterate ==
    /\ pc = "sampling"
    /\ iteration' = iteration + 1
    /\ chain' = SaveStep(chain, iteration')
    /\ IF ~CheckDue(iteration')
       THEN /\ UNCHANGED <<tau, autocorr, converged, old_tau>>
            /\ pc' = IF LoopContinues(iteration', nsamps) THEN "sampling" ELSE "finish"
       ELSE \E t \in [1..ndim -> TauVals] :
            /\ tau' = t
            /\ autocorr' = Append(autocorr, <<iteration', XMean(t)>>)
            /\ converged' = Converged(t, old_tau, conv_F, conv_perc, iteration')
            /\ old_tau' = IF converged' THEN old_tau ELSE t
            /\ pc' = IF ~converged' /\ LoopContinues(iteration', nsamps)
                     THEN "sampling" ELSE "finish"
    /\ UNCHANGED <<emceeArgs, optimVars, ndim, dp, result>>

\* lines 161-163
Return ==
    /\ pc = "finish"
    /\ result' = [chains |-> Samples(chain, nburn), autocorr |-> autocorr]
    /\ pc' = "done"
    /\ UNCHANGED <<emceeArgs, optimVars, ndim, dp, iteration, chain, old_tau, tau,
                   autocorr, converged>>

NextEmcee == Setup \/ Iterate \/ Return

NoResult == [chains |-> <<>>, autocorr |-> <<>>]
NoRes == [x |-> [kind |-> "none", elems |-> <<>>], success |-> FALSE, nfev |-> 0]

OptimIdle ==
    /\ ml_first = FALSE
    /\ res = NoRes
    /\ minimize_calls = 0

Hints(n) == [1..n -> {PyNone} \cup {Fin(h) : h \in -1..MaxHint}]

EmceeInit(dims, hintLens, samps, burns, extras, Fs, percs) ==
    /\ pc = "setup"
    /\ pos0 \in {Fill(n, 0) : n \in dims}
    /\ dpos \in {[given |-> FALSE, hints |-> <<>>]}
                 \cup {[given |-> TRUE, hints |-> h] :
                         h \in UNION {Hints(k) : k \in hintLens}}
    /\ nwalkers \in {2 * Len(pos0) + e : e \in extras}
    /\ nsamps \in samps
    /\ nburn \in burns
    /\ conv_F \in Fs
    /\ conv_perc \in percs
    /\ ndim = 0
    /\ dp = <<>>
    /\ iteration = 0
    /\ chain = <<>>
    /\ old_tau = <<>>
    /\ tau = <<>>
    /\ autocorr = <<>>
    /\ converged = FALSE
    /\ result = NoResult
    /\ OptimIdle

(***************************************************************************)
(* run_minimize and run_fisher.  A Python value is [kind, elems]: a bare   *)
(* scalar ("scalar"), a zero-dimensional array ("array0d"), an array       *)
(* ("array") or a list ("list").                                           *)
(***************************************************************************)
MaxNfev == 2

PyScalar(v) == [kind |-> "scalar", elems |-> <<v>>]
PyArray0d(v) == [kind |-> "array0d", elems |-> <<v>>]
PyArray(s) == [kind |-> "array", elems |-> s]
PyList(s) == [kind |-> "list", elems |-> s]
PyBool(b) == <<"bool", b>>
PyNoneFlag == <<"None", FALSE>>

Coords == 0..MaxCoord
Vectors(n) == [1..n -> Coords]

\* what scipy's minimize may hand back for an n-dimensional problem: the
\* solution is an array of n entries, or for n = 1 a scalar or a
\* zero-dimensional array
MinimizerResults(n) ==
    [x : {PyArray(v) : v \in Vectors(n)}
           \cup (IF n = 1 THEN {PyScalar(v) : v \in Coords}
                                 \cup {PyArray0d(v) : v \in Coords}
                 ELSE {}),
     success : BOOLEAN,
     nfev : 1..MaxNfev]

\* isinstance(x, Iterable): numpy arrays of any dimension define __iter__
IsIterable(x) == x.kind \in {"array0d", "array", "list"}

\* lines 45-48
WrapScalar(x) == IF ~IsIterable(x) THEN PyList(x.elems) ELSE x

\* lines 43-49
Minimize ==
    /\ pc = "minimize"
    /\ \E r \in MinimizerResults(Len(pos0)) :
        /\ res' = r
        /\ result' = [params_ML |-> WrapScalar(r.x), ML_success |-> r.success,
                      ML_nev |-> r.nfev]
    /\ minimize_calls' = minimize_calls + 1
    /\ pc' = "done"
    /\ UNCHANGED <<emceeArgs, ml_first, ndim, dp, iteration, chain, old_tau, tau,
                   autocorr, converged>>

\* lines 78-86: the central value
FisherCenter(mlf, p0, r) == IF mlf THEN r.x ELSE PyList(p0)

\* variant: ml_success defaults to False
FisherSuccessFalse(mlf, r) == PyBool(IF mlf THEN r.success ELSE FALSE)

\* lines 78-86: ml_success
FisherSuccess(mlf, r) == IF mlf THEN PyBool(r.success) ELSE PyNoneFlag

\* lines 78-94
Fisher ==
    /\ pc = "fisher"
    /\ \E r \in (IF ml_first THEN MinimizerResults(Len(pos0)) ELSE {res}) :
        /\ res' = r
        /\ LET pcent == FisherCenter(ml_first, pos0, r)
           IN  result' = [params_cent |-> pcent,
                          fisher_m |-> <<"Hessian", pcent>>,
                          fisher_v |-> <<"-Gradient", pcent>>,
                          ML_success |-> FisherSuccess(ml_first, r)]
    /\ minimize_calls' = IF ml_first THEN minimize_calls + 1 ELSE minimize_calls
    /\ pc' = "done"
    /\ UNCHANGED <<emceeArgs, ml_first, ndim, dp, iteration, chain, old_tau, tau,
                   autocorr, converged>>

EmceeIdle ==
    /\ dpos = [given |-> FALSE, hints |-> <<>>]
    /\ nwalkers = 0
    /\ nsamps = 0
    /\ nburn = 0
    /\ conv_F = 0
    /\ conv_perc = Fin(0)
    /\ ndim = 0
    /\ dp = <<>>
    /\ iteration = 0
    /\ chain = <<>>
    /\ old_tau = <<>>
    /\ tau = <<>>
    /\ autocorr = <<>>
    /\ converged = FALSE

InitMinimize ==
    /\ pc = "minimize"
    /\ pos0 \in UNION {Vectors(n) : n \in 1..MaxDim}
    /\ result = [params_ML |-> PyList(<<>>), ML_success |-> FALSE, ML_nev |-> 0]
    /\ OptimIdle
    /\ EmceeIdle

InitFisher ==
    /\ pc = "fisher"
    /\ pos0 \in UNION {Vectors(n) : n \in 1..MaxDim}
    /\ ml_first \in BOOLEAN
    /\ res = NoRes
    /\ minimize_calls = 0
    /\ result = [params_cent |-> PyList(<<>>), fisher_m |-> <<>>, fisher_v |-> <<>>,
                 ML_success |-> PyNoneFlag]
    /\ EmceeIdle

(***************************************************************************)
(* Specifications.                                                         *)
(***************************************************************************)
DefaultPerc == Rat(1, 100)

\* the convergence loop: dpos=None, varied conv_F, conv_perc, nsamps
InitConv ==
    EmceeInit(1..MaxDim, {}, {150, 200, MaxSamps}, {50}, {0}, {50, 150},
              {DefaultPerc, Rat(3, 4)})

\* burn-in and output shape: varied nwalkers, nsamps, nburn
InitBurn ==
    EmceeInit({1}, {}, {50, 150, MaxSamps}, {0, 50, 120, MaxBurn}, 0..MaxExtraWalkers,
              {50}, {Rat(3, 4)})

\* walker initialisation: varied dpos, of the length of pos0 or not
InitDp ==
    EmceeInit(1..MaxDim, 0..(MaxDim + 1), {120}, {50}, {0}, {50}, {DefaultPerc})

NextMinimize == Minimize
NextFisher == Fisher

Spec == InitConv /\ [][NextEmcee]_vars
SpecBurn == InitBurn /\ [][NextEmcee]_vars
SpecDp == InitDp /\ [][NextEmcee]_vars
SpecLive == InitConv /\ [][NextEmcee]_vars /\ WF_vars(NextEmcee)
SpecMinimize == InitMinimize /\ [][NextMinimize]_vars
SpecFisher == InitFisher /\ [][NextFisher]_vars

(***************************************************************************)
(* Properties.                                                             *)
(***************************************************************************)
Stamp(j) == autocorr[j][1]
AllNegative(t) == \A d \in DOMAIN t : t[d][1] = "fin" /\ t[d][2] < 0
AllPositive(t) == \A d \in DOMAIN t : t[d][1] = "fin" /\ t[d][2] > 0

\* C1: the convergence check runs after iteration i exactly when i is a
\* multiple of 100, and each check appends one (iteration, mean tau) pair:
\* the trace holds one entry per multiple of 100 reached, in increasing order.
C1_CheckEveryHundred ==
    /\ Len(autocorr) = iteration \div 100
    /\ \A j \in 1..Len(autocorr) :
         /\ Stamp(j) = 100 * j
         /\ Len(autocorr[j]) = 2
    /\ \A i \in 1..iteration :
         (\E j \in 1..Len(autocorr) : Stamp(j) = i) <=> (i % 100 = 0)

C1_Witness ==
    /\ pc = "done"
    /\ iteration = MaxSamps
    /\ Len(autocorr) = 2
    /\ Stamp(1) = 100
    /\ Stamp(2) = 200

\* tau * F < k, over the rationals; false of a NaN
C2_FactorBelow(t, F, k) == t[1] = "fin" /\ t[2] * F < k * t[3]

\* |old - tau| / tau < perc, over the extended reals: with old infinite the
\* quotient is +infinity for tau > 0 and -infinity for tau < 0; false when
\* old or tau is a NaN
C2_ChangeBelow(old, t, perc) ==
    LET diff == old[2] * t[3] - t[2] * old[3]
        absdiff == IF diff < 0 THEN -diff ELSE diff
    IN  IF old[1] = "nan" \/ t[1] = "nan" THEN FALSE
        ELSE IF old[1] = "inf" THEN t[2] < 0
        ELSE IF t[2] > 0 THEN absdiff * perc[3] < perc[2] * old[3] * t[2]
        ELSE IF t[2] < 0 THEN absdiff * perc[3] > perc[2] * old[3] * t[2]
        ELSE FALSE

\* C2: at a check on iteration k convergence is declared exactly when every
\* tau*conv_F < k and every |previous_tau - tau|/tau < conv_perc; once declared
\* no further iteration runs; otherwise tau becomes the baseline of the next
\* check and sampling continues.
C2_ConvergenceRule ==
    [][/\ (iteration' = iteration + 1 /\ iteration' % 100 = 0) =>
            /\ converged' <=>
                 /\ \A d \in 1..ndim : C2_FactorBelow(tau'[d], conv_F, iteration')
                 /\ \A d \in 1..ndim : C2_ChangeBelow(old_tau[d], tau'[d], conv_perc)
            /\ converged' => pc' = "finish"
            /\ ~converged' =>
                 /\ old_tau' = tau'
                 /\ iteration' < nsamps => pc' = "sampling"
       /\ converged => iteration' = iteration
      ]_vars

C2_Witness ==
    /\ pc = "done"
    /\ converged
    /\ iteration = 200
    /\ nsamps > 200
    /\ AllPositive(tau)
    /\ ndim = MaxDim

\* C3 as amended: the number of rows returned is n_walkers * (iterations_run -
\* n_burn) when n_burn <= iterations_run, and 0 when n_burn > iterations_run.
C3_RowsClamped ==
    pc = "done" =>
        Len(result.chains) =
            IF nburn <= iteration THEN nwalkers * (iteration - nburn) ELSE 0

C3_Witness ==
    /\ pc = "done"
    /\ nburn > iteration
    /\ iteration > 0
    /\ Len(result.chains) = 0

\* C3 as stated: the number of rows returned is n_walkers * (iterations_run -
\* n_burn) for every combination of n_walkers, n_samples and n_burn.
C3_RowsAnyBurn ==
    pc = "done" => Len(result.chains) = nwalkers * (iteration - nburn)

\* C4: provided at least n_burn+1 iterations ran, the returned samples are
\* exactly the walker states of iterations n_burn+1 .. iterations_run of every
\* walker, each once, whether the loop stopped early or ran all of n_samples.
C4_BurnInDiscarded ==
    (pc = "done" /\ iteration >= nburn + 1) =>
        LET rows == {result.chains[j] : j \in DOMAIN result.chains}
        IN  /\ rows = (1..nwalkers) \X ((nburn + 1)..iteration)
            /\ Len(result.chains) = Cardinality(rows)

C4_Witness ==
    /\ pc = "done"
    /\ converged
    /\ nburn = 50
    /\ iteration = 200
    /\ nsamps > iteration
    /\ Len(result.chains) = nwalkers * 150
    /\ nwalkers = 2 + MaxExtraWalkers

\* C5: with dpos of a length other than that of pos0 the call fails with an
\* error before any sampling takes place.
C5_MismatchFailsFast ==
    (dpos.given /\ Len(dpos.hints) # Len(pos0) /\ pc # "setup") =>
        (pc = "error" /\ iteration = 0)

\* C6: the loop ends after at most n_samples iterations; a run in which no
\* check declares convergence runs exactly n_samples iterations and returns
\* the samples and the trace, without an error.
C6_TerminatesWithinBudget ==
    /\ [](iteration <= nsamps)
    /\ []((pc = "done" /\ ~converged) =>
            /\ iteration = nsamps
            /\ result.autocorr = autocorr
            /\ Len(result.autocorr) = nsamps \div 100)
    /\ [][(pc \in {"sampling", "finish"}) => (pc' # "error")]_vars
    /\ <>(pc = "done")

C6_Witness ==
    /\ pc = "done"
    /\ ~converged
    /\ iteration = nsamps
    /\ nsamps = 200
    /\ Len(autocorr) = 2

C7_RatEq(a, b) == a[1] = "fin" /\ b[1] = "fin" /\ a[2] * b[3] = b[2] * a[3]

\* the dispersion the hint of index i calls for
C7_Expected(i) ==
    IF ~dpos.given \/ i > Len(dpos.hints) THEN Rat(1, 100)
    ELSE IF dpos.hints[i] = PyNone \/ dpos.hints[i][2] <= 0 THEN Rat(1, 100)
    ELSE Rat(dpos.hints[i][2], 10 * dpos.hints[i][3])

\* C7: dp has ndim entries; dp[i] = 0.01 when the hint of index i is absent,
\* None or <= 0, and 0.1 * dpos[i] otherwise; every dp[i] is positive.
C7_DpPerHint ==
    pc \in {"sampling", "finish", "done"} =>
        /\ Len(dp) = Len(pos0)
        /\ \A i \in 1..Len(pos0) :
             /\ C7_RatEq(dp[i], C7_Expected(i))
             /\ dp[i][2] > 0

\* C8: with ml_first=False the minimizer is never called, params_cent is
\* pos0 and ML_success is None; with ml_first=True params_cent is the
\* minimizer's solution and ML_success its success flag, a boolean.
C8_MlFirstContract ==
    pc = "done" =>
        /\ result.ML_success = <<"None", FALSE>> <=> ~ml_first
        /\ ml_first =>
             /\ minimize_calls = 1
             /\ result.params_cent = res.x
             /\ result.ML_success = <<"bool", res.success>>
        /\ ~ml_first =>
             /\ minimize_calls = 0
             /\ result.params_cent.elems = pos0
             /\ result.params_cent.kind = "list"

C8_Witness ==
    /\ pc = "done"
    /\ ~ml_first
    /\ result.ML_success = <<"None", FALSE>>
    /\ Len(pos0) = MaxDim

\* C9: params_ML is a sequence of length ndim, whatever shape the minimizer
\* gives its solution.
C9_ParamsLength ==
    pc = "done" =>
        /\ result.params_ML.kind \in {"array", "list"}
        /\ Len(result.params_ML.elems) = Len(pos0)

\* C10 as amended: the first check (iteration 100) declares convergence only
\* when every tau is negative; early stopping happens at a multiple of 100 not
\* exceeding n_samples, and at one below 200 only with every tau negative.
C10_FirstCheckNeedsNegativeTau ==
    /\ (converged /\ iteration < 200) => AllNegative(tau)
    /\ converged => (iteration % 100 = 0 /\ iteration <= nsamps /\ iteration >= 100)
    /\ pc = "done" => (iteration = nsamps \/ converged)

C10_Witness ==
    /\ pc = "sampling"
    /\ iteration = 100
    /\ Len(autocorr) = 1
    /\ ~converged
    /\ AllPositive(tau)
    /\ \A d \in 1..ndim : C2_FactorBelow(tau[d], conv_F, 100)

\* C10 as stated: the first check never declares convergence, so early
\* stopping happens only at a multiple of 100 that is at least 200.
C10_FirstCheckNeverConverges ==
    /\ converged => (iteration % 100 = 0 /\ iteration >= 200 /\ iteration <= nsamps)
    /\ pc = "done" => (iteration = nsamps \/ converged)
    /\ (pc = "done" /\ nsamps < 200) => iteration = nsamps

====
